---- MODULE Spec2Model ----
(***************************************************************************)
(* Model of bot.py: the user registry (class Database), the broadcast      *)
(* scheduler (class BroadcastManager), the /start handler (send_welcome)   *)
(* and the main thread.  Strings the code inspects character by character  *)
(* (schedule keys, strftime results) are sequences of one-character        *)
(* strings; Python dicts are insertion-ordered sequences of <<key, value>> *)
(* pairs.                                                                  *)
(***************************************************************************)
EXTENDS Integers, Sequences, FiniteSets, TLC

\* ------------------------------------------------------------------ bounds
MaxDay == 1          \* the clock runs over days 0..MaxDay
MaxLoops == 2        \* threads start() may spawn over one process lifetime
MaxUserId == 2       \* user ids 1..MaxUserId send /start
MaxStarts == 2       \* /start messages handled over one process lifetime

\* line 18: telebot.TeleBot(BOT_TOKEN) is threaded, with the default
\* num_threads = 2 worker threads running the handlers.
NumHandlers == 2

\* The minutes of a day the clock is observed at: 00:00, 00:01, 09:00.
DayMinutes == {0, 1, 540}
Instants == {d * (24 * 60) + m : d \in 0..MaxDay, m \in DayMinutes}

LoopIds == 1..MaxLoops
Main == 0
Handlers == 1..NumHandlers
Callers == {Main} \cup Handlers
UserIds == 1..MaxUserId
Names == {"ann", "bob"}

\* ----------------------------------------------------------- Python dicts
RECURSIVE IndexOfKey(_, _, _)
IndexOfKey(d, k, i) ==
    IF i > Len(d) THEN 0
    ELSE IF d[i][1] = k THEN i
    ELSE IndexOfKey(d, k, i + 1)

HasKey(d, k) == IndexOfKey(d, k, 1) # 0
Lookup(d, k) == d[IndexOfKey(d, k, 1)][2]
\* d[k] = v: an existing key keeps its place, a new key goes last.
DictSet(d, k, v) ==
    IF HasKey(d, k) THEN [d EXCEPT ![IndexOfKey(d, k, 1)] = <<k, v>>]
    ELSE Append(d, <<k, v>>)
\* dict.get(k, default)
DictGet(d, k, default) == IF HasKey(d, k) THEN Lookup(d, k) ELSE default

\* ---------------------------------------------------------------- strftime
\* The clock counts minutes from 2025-06-01 00:00 local time and stays
\* within June 2025.
TwoDigits(n) == <<ToString(n \div 10), ToString(n % 10)>>
DayOf(t) == t \div (24 * 60)
MinuteOfDay(t) == t % (24 * 60)
\* strftime("%H:%M")
StrfHM(t) ==
    TwoDigits(MinuteOfDay(t) \div 60) \o <<":">> \o TwoDigits(MinuteOfDay(t) % 60)
\* strftime("%Y-%m-%d")
StrfDate(t) == <<"2", "0", "2", "5", "-", "0", "6", "-">> \o TwoDigits(1 + DayOf(t))
\* strftime("%Y-%m-%d %H:%M")
StrfDateHM(t) == StrfDate(t) \o <<" ">> \o StrfHM(t)
\* datetime.isoformat(), to the minute
Isoformat(t) == StrfDate(t) \o <<"T">> \o StrfHM(t)

Contains(s, c) == \E i \in 1..Len(s) : s[i] = c

\* ------------------------------------------------------------ the schedule
\* A schedule value is a Python object: a dict of fields, or (as the type
\* hint Dict[str, str] of __init__ allows) a plain string.
PyDict(d) == [py |-> "dict", v |-> d]
PyStr(s) == [py |-> "str", v |-> s]

KeyMidnight == <<"0", "0", ":", "0", "0">>
KeyNine == <<"0", "9", ":", "0", "0">>
KeyDay1Nine ==
    <<"2", "0", "2", "5", "-", "0", "6", "-", "0", "1", " ", "0", "9", ":", "0", "0">>

ScheduleA ==
    << <<KeyMidnight, PyDict(<< <<"title", "Night check">> >>)>>,
       <<KeyNine, PyDict(<< <<"title", "Opening">>, <<"message", "Opening ceremony">> >>)>>,
       <<KeyDay1Nine, PyDict(<< <<"message", "Workshop B">> >>)>> >>
ScheduleB ==
    << <<KeyNine, PyStr("Opening ceremony")>>,
       <<KeyDay1Nine, PyDict(<< <<"message", "Workshop B">> >>)>> >>
ScheduleC ==
    << <<KeyDay1Nine, PyDict(<< <<"message", "Workshop B">> >>)>>,
       <<KeyNine, PyStr("Opening ceremony")>> >>
Schedules == {ScheduleA, ScheduleB}

\* ------------------------------------------------------------ the registry
\* USERS_DB_FILE: absent, or a text that json.load parses (complete) or
\* rejects (a file opened for writing and not yet rewritten).
NoFile == [kind |-> "absent", complete |-> FALSE, doc |-> <<>>]
Truncated == [kind |-> "text", complete |-> FALSE, doc |-> <<>>]
\* A file that exists and that open(USERS_DB_FILE, 'r') refuses (line 29).
Unreadable == [kind |-> "unreadable", complete |-> FALSE, doc |-> <<>>]
\* json.dump(users, f)
JsonDump(users) == [kind |-> "text", complete |-> TRUE, doc |-> users]

\* load_users(): {} when the file is absent or json.load raises.
load_users(f) ==
    IF f.kind = "absent" THEN <<>>
    ELSE IF f.complete THEN f.doc
    ELSE <<>>

\* str(user_id) and int(uid)
str(n) == ToString(n)
IsIntStr(s) == \E n \in 0..(MaxUserId + 1) : str(n) = s
int(s) == CHOOSE n \in 0..(MaxUserId + 1) : str(n) = s

UserRecord(user_id, username, t, active) ==
    << <<"user_id", user_id>>, <<"username", username>>,
       <<"registered_at", Isoformat(t)>>, <<"active", active>> >>

\* A mutant of add_user_dict: the new record is saved without the loaded ones.
add_user_dict_fresh(users, user_id, username, t) ==
    << <<str(user_id), UserRecord(user_id, username, t, TRUE)>> >>

\* The dict add_user saves: users[str(user_id)] = {...}
add_user_dict(users, user_id, username, t) ==
    DictSet(users, str(user_id), UserRecord(user_id, username, t, TRUE))

\* A mutant of ActiveIds: the ids of all records, whatever their "active".
ActiveIdsOfAll(users, i) ==
    [k \in 1..(Len(users) - i + 1) |-> int(users[k + i - 1][1])]

\* get_all_user_ids(): the ids of the records whose "active" is true or absent.
RECURSIVE ActiveIds(_, _)
ActiveIds(users, i) ==
    IF i > Len(users) THEN <<>>
    ELSE IF DictGet(users[i][2], "active", TRUE)
         THEN <<int(users[i][1])>> \o ActiveIds(users, i + 1)
         ELSE ActiveIds(users, i + 1)
get_all_user_ids(f) == ActiveIds(load_users(f), 1)
\* A mutant of get_all_user_ids_raises: an error of open or json.load is
\* not caught in load_users and leaves get_all_user_ids.
get_all_user_ids_raises_on_load(f) ==
    \/ f.kind # "absent" /\ ~f.complete
    \/ \E i \in 1..Len(load_users(f)) :
          /\ DictGet(load_users(f)[i][2], "active", TRUE)
          /\ ~IsIntStr(load_users(f)[i][1])

\* int(uid) raises ValueError on a key that is no number.
get_all_user_ids_raises(f) ==
    \E i \in 1..Len(load_users(f)) :
        /\ DictGet(load_users(f)[i][2], "active", TRUE)
        /\ ~IsIntStr(load_users(f)[i][1])


\* The registry as the spec describes it: a map from id to the Recipient's
\* displayName, registeredAt and active.  register(id, name) is an upsert.
Abstract(users) ==
    [id \in {int(users[i][1]) : i \in 1..Len(users)} |->
        LET rec == Lookup(users, str(id)) IN
        [username |-> Lookup(rec, "username"),
         registered_at |-> Lookup(rec, "registered_at"),
         active |-> Lookup(rec, "active")]]
Upsert(reg, id, recipient) ==
    [x \in DOMAIN reg \cup {id} |-> IF x = id THEN recipient ELSE reg[x]]

\* ------------------------------------------------------------------- state
VARIABLES
    now,          \* the wall clock datetime.now() reads
    file,         \* the content of USERS_DB_FILE
    schedule,     \* BROADCAST_SCHEDULE (broadcast_manager.schedule)
    running,      \* broadcast_manager.running
    sent_times,   \* broadcast_manager.sent_times
    sent_dates,   \* broadcast_manager.sent_dates
    loop,         \* the threads running _check_loop: position and locals, and
                  \* (history) the lists get_all_user_ids returned in this tick
    caller,       \* the main thread and the handler threads: position and locals
    spawned,      \* threads start() has started so far
    handled,      \* /start messages taken so far
    fired,        \* history: broadcasts of entry i in ticks observing day d
    registered,   \* history: the registry the register calls so far ask for
    durable       \* history: the registry of the last completed save

vars == <<now, file, schedule, running, sent_times, sent_dates, loop, caller,
          spawned, handled, fired, registered, durable>>

NoLoop ==
    [pc |-> "none", t_time |-> 0, t_datetime |-> 0, idx |-> 0,
     user_ids |-> <<>>, j |-> 0, sent_count |-> 0, failed_count |-> 0,
     outcomes |-> <<>>, raised_at |-> 0, caught |-> 0, reads |-> <<>>]
IdleCaller ==
    [pc |-> "idle", user_id |-> 0, username |-> "", users |-> <<>>, started |-> ""]

\* __init__ (lines 64-68) and the module's globals, before __main__ runs.
InitWith(times, files, schedules) ==
    /\ now \in times
    /\ file \in files
    /\ schedule \in schedules
    /\ running = FALSE
    /\ sent_times = {}
    /\ sent_dates = {}
    /\ loop = [l \in LoopIds |-> NoLoop]
    /\ caller = [c \in Callers |-> IF c = Main THEN [IdleCaller EXCEPT !.pc = "start_if"]
                                   ELSE IdleCaller]
    /\ spawned = 0
    /\ handled = 0
    /\ fired = [i \in 1..Len(schedule) |-> [d \in 0..MaxDay |-> 0]]
    /\ registered = Abstract(load_users(file))
    /\ durable = load_users(file)

\* ------------------------------------------------------------- the clock
ClockAdvance ==
    /\ \E t \in Instants : t > now /\ now' = t
    /\ UNCHANGED <<file, schedule, running, sent_times, sent_dates, loop, caller,
                   spawned, handled, fired, registered, durable>>

\* ------------------------------------------------------ start() and stop()
SetCaller(c, rec) == caller' = [caller EXCEPT ![c] = rec]
\* Where a caller goes on when start() returns.
AfterStart(c) == IF c = Main THEN "polling" ELSE "welcome"

\* A mutant of start_if: start() without the test of the running flag.
start_if_unguarded(c) ==
    /\ caller[c].pc = "start_if"
    /\ SetCaller(c, [caller[c] EXCEPT !.pc = "start_set"])
    /\ UNCHANGED <<now, file, schedule, running, sent_times, sent_dates, loop,
                   spawned, handled, fired, registered, durable>>

\* line 72: if not self.running
start_if(c) ==
    /\ caller[c].pc = "start_if"
    /\ SetCaller(c, IF ~running THEN [caller[c] EXCEPT !.pc = "start_set"]
                     ELSE [caller[c] EXCEPT !.pc = AfterStart(c),
                                            !.started = "no-op"])
    /\ UNCHANGED <<now, file, schedule, running, sent_times, sent_dates, loop,
                   spawned, handled, fired, registered, durable>>

\* line 73: self.running = True
start_set(c) ==
    /\ caller[c].pc = "start_set"
    /\ running' = TRUE
    /\ SetCaller(c, [caller[c] EXCEPT !.pc = "start_thread"])
    /\ UNCHANGED <<now, file, schedule, sent_times, sent_dates, loop,
                   spawned, handled, fired, registered, durable>>

\* lines 74-75: threading.Thread(target=self._check_loop).start()
start_thread(c) ==
    /\ caller[c].pc = "start_thread"
    /\ spawned < MaxLoops
    /\ spawned' = spawned + 1
    /\ loop' = [loop EXCEPT ![spawned + 1] = [NoLoop EXCEPT !.pc = "while"]]
    /\ SetCaller(c, [caller[c] EXCEPT !.pc = AfterStart(c), !.started = "thread"])
    /\ UNCHANGED <<now, file, schedule, running, sent_times, sent_dates,
                   handled, fired, registered, durable>>

\* lines 356-358: KeyboardInterrupt in the main thread, broadcast_manager.stop()
stop ==
    /\ caller[Main].pc = "polling"
    /\ running' = FALSE
    /\ SetCaller(Main, [caller[Main] EXCEPT !.pc = "stopped"])
    /\ UNCHANGED <<now, file, schedule, sent_times, sent_dates, loop,
                   spawned, handled, fired, registered, durable>>


\* --------------------------------------------------------- the check loop
SetLoop(l, rec) == loop' = [loop EXCEPT ![l] = rec]

\* line 96 and line 97: the two formatted readings of the clock
current_time(l) == StrfHM(loop[l].t_time)
current_datetime(l) == StrfDateHM(loop[l].t_datetime)

\* line 101 and line 107: the two key formats
IsAbsoluteKey(k) == Len(k) = 16 /\ Contains(k, " ")
IsDailyKey(k) == Len(k) = 5 /\ Contains(k, ":")

\* lines 102 and 108: the entry at idx is to be broadcast by this tick
IsDue(l, i) ==
    LET k == schedule[i][1] IN
    IF IsAbsoluteKey(k) THEN k = current_datetime(l) /\ k \notin sent_dates
    ELSE IF IsDailyKey(k) THEN k = current_time(l) /\ k \notin sent_times
    ELSE FALSE

\* lines 103 and 109: event_data.get('message', event_data.get('title', ''))
GetRaises(event_data) == event_data.py # "dict"
Message(event_data) ==
    DictGet(event_data.v, "message", DictGet(event_data.v, "title", ""))

\* The day of the reading an entry's key is compared with.
ObservedDay(l, i) ==
    IF IsAbsoluteKey(schedule[i][1]) THEN DayOf(loop[l].t_datetime)
    ELSE DayOf(loop[l].t_time)

Bump(n) == IF n < 2 THEN n + 1 ELSE 2

\* A mutant of check_loop_while: the loop does not test the running flag.
check_loop_while_forever(l) ==
    /\ loop[l].pc = "while"
    /\ SetLoop(l, [loop[l] EXCEPT !.pc = "time"])
    /\ UNCHANGED <<now, file, schedule, running, sent_times, sent_dates, caller,
                   spawned, handled, fired, registered, durable>>

\* line 86: while self.running
check_loop_while(l) ==
    /\ loop[l].pc = "while"
    /\ SetLoop(l, [loop[l] EXCEPT !.pc = IF running THEN "time" ELSE "done"])
    /\ UNCHANGED <<now, file, schedule, running, sent_times, sent_dates, caller,
                   spawned, handled, fired, registered, durable>>

\* line 96: current_time = datetime.now().strftime("%H:%M")
check_time(l) ==
    /\ loop[l].pc = "time"
    /\ SetLoop(l, [loop[l] EXCEPT !.pc = "datetime", !.t_time = now])
    /\ UNCHANGED <<now, file, schedule, running, sent_times, sent_dates, caller,
                   spawned, handled, fired, registered, durable>>

\* line 97: current_datetime = datetime.now().strftime("%Y-%m-%d %H:%M")
check_datetime(l) ==
    /\ loop[l].pc = "datetime"
    /\ SetLoop(l, [loop[l] EXCEPT !.pc = "for", !.t_datetime = now, !.idx = 1])
    /\ UNCHANGED <<now, file, schedule, running, sent_times, sent_dates, caller,
                   spawned, handled, fired, registered, durable>>

\* lines 99-110: one iteration of the for loop, up to the call of
\* _send_to_all_users; an exception leaves the loop for line 90.
check_for(l) ==
    /\ loop[l].pc = "for"
    /\ LET i == loop[l].idx IN
       SetLoop(l,
         IF i > Len(schedule) THEN [loop[l] EXCEPT !.pc = "reset"]
         ELSE IF ~IsDue(l, i) THEN [loop[l] EXCEPT !.idx = i + 1]
         ELSE IF GetRaises(schedule[i][2])
              THEN [loop[l] EXCEPT !.pc = "except", !.raised_at = i]
         ELSE [loop[l] EXCEPT !.pc = "get_ids"])
    /\ UNCHANGED <<now, file, schedule, running, sent_times, sent_dates, caller,
                   spawned, handled, fired, registered, durable>>

\* lines 119-128: user_ids = Database.get_all_user_ids(); return if empty
send_get_ids(l) ==
    /\ loop[l].pc = "get_ids"
    /\ LET i == loop[l].idx
           ids == get_all_user_ids(file) IN
       IF get_all_user_ids_raises(file)
       THEN /\ SetLoop(l, [loop[l] EXCEPT !.pc = "except", !.raised_at = i])
            /\ UNCHANGED fired
       ELSE /\ SetLoop(l, IF ids = <<>>
                          THEN [loop[l] EXCEPT !.pc = "add", !.reads = Append(@, ids)]
                          ELSE [loop[l] EXCEPT !.pc = "send", !.user_ids = ids,
                                               !.j = 1, !.reads = Append(@, ids)])
            /\ fired' = [fired EXCEPT ![i][ObservedDay(l, i)] = Bump(@)]
    /\ UNCHANGED <<now, file, schedule, running, sent_times, sent_dates, caller,
                   spawned, handled, registered, durable>>

\* A mutant of send_one: a send that raises makes the recipient inactive in
\* the store.
send_one_deactivates(l, ok) ==
    /\ loop[l].pc = "send"
    /\ LET j == loop[l].j
           uid == str(loop[l].user_ids[j])
           users == load_users(file) IN
       /\ SetLoop(l, [loop[l] EXCEPT
              !.sent_count = IF ok THEN @ + 1 ELSE @,
              !.failed_count = IF ok THEN @ ELSE @ + 1,
              !.outcomes = Append(@, <<loop[l].user_ids[j], ok>>),
              !.j = j + 1,
              !.pc = IF j = Len(loop[l].user_ids) THEN "add" ELSE "send"])
       /\ file' = IF ok \/ ~HasKey(users, uid) THEN file
                  ELSE JsonDump(DictSet(users, uid,
                                        DictSet(Lookup(users, uid), "active", FALSE)))
    /\ UNCHANGED <<now, schedule, running, sent_times, sent_dates, caller,
                   spawned, handled, fired, registered, durable>>

\* A mutant of send_one: a send that raises ends the fan-out.
send_one_stops_on_error(l, ok) ==
    /\ loop[l].pc = "send"
    /\ LET j == loop[l].j IN
       SetLoop(l, [loop[l] EXCEPT
           !.sent_count = IF ok THEN @ + 1 ELSE @,
           !.failed_count = IF ok THEN @ ELSE @ + 1,
           !.outcomes = Append(@, <<loop[l].user_ids[j], ok>>),
           !.j = j + 1,
           !.pc = IF j = Len(loop[l].user_ids) \/ ~ok THEN "add" ELSE "send"])
    /\ UNCHANGED <<now, file, schedule, running, sent_times, sent_dates, caller,
                   spawned, handled, fired, registered, durable>>

\* lines 130-138: one bot.send_message(uid, message), which returns (ok) or
\* raises; after the last one the broadcast returns.
send_one(l, ok) ==
    /\ loop[l].pc = "send"
    /\ LET j == loop[l].j IN
       SetLoop(l, [loop[l] EXCEPT
           !.sent_count = IF ok THEN @ + 1 ELSE @,
           !.failed_count = IF ok THEN @ ELSE @ + 1,
           !.outcomes = Append(@, <<loop[l].user_ids[j], ok>>),
           !.j = j + 1,
           !.pc = IF j = Len(loop[l].user_ids) THEN "add" ELSE "send"])
    /\ UNCHANGED <<now, file, schedule, running, sent_times, sent_dates, caller,
                   spawned, handled, fired, registered, durable>>

\* lines 105 and 111: self.sent_dates.add(key) / self.sent_times.add(key)
check_add(l) ==
    /\ loop[l].pc = "add"
    /\ LET k == schedule[loop[l].idx][1] IN
       IF IsAbsoluteKey(k)
       THEN sent_dates' = sent_dates \cup {k} /\ UNCHANGED sent_times
       ELSE sent_times' = sent_times \cup {k} /\ UNCHANGED sent_dates
    /\ SetLoop(l, [loop[l] EXCEPT !.pc = "for", !.idx = @ + 1, !.user_ids = <<>>,
                       !.j = 0, !.sent_count = 0, !.failed_count = 0,
                       !.outcomes = <<>>])
    /\ UNCHANGED <<now, file, schedule, running, caller,
                   spawned, handled, fired, registered, durable>>

\* lines 114-115: the midnight reset, on a third reading of the clock
check_reset(l) ==
    /\ loop[l].pc = "reset"
    /\ sent_times' = IF StrfHM(now) = KeyMidnight THEN {} ELSE sent_times
    /\ SetLoop(l, [NoLoop EXCEPT !.pc = "sleep", !.caught = loop[l].caught])
    /\ UNCHANGED <<now, file, schedule, running, sent_dates, caller,
                   spawned, handled, fired, registered, durable>>

\* line 89: time.sleep(ALARM_CHECK_INTERVAL)
check_loop_sleep(l) ==
    /\ loop[l].pc = "sleep"
    /\ SetLoop(l, [loop[l] EXCEPT !.pc = "while"])
    /\ UNCHANGED <<now, file, schedule, running, sent_times, sent_dates, caller,
                   spawned, handled, fired, registered, durable>>

\* A mutant of check_loop_except: the exception ends the thread.
check_loop_except_exits(l) ==
    /\ loop[l].pc = "except"
    /\ SetLoop(l, [NoLoop EXCEPT !.pc = "done", !.caught = 1])
    /\ UNCHANGED <<now, file, schedule, running, sent_times, sent_dates, caller,
                   spawned, handled, fired, registered, durable>>

\* lines 90-92: except Exception: print, time.sleep(5)
check_loop_except(l) ==
    /\ loop[l].pc = "except"
    /\ SetLoop(l, [NoLoop EXCEPT !.pc = "while", !.caught = 1])
    /\ UNCHANGED <<now, file, schedule, running, sent_times, sent_dates, caller,
                   spawned, handled, fired, registered, durable>>


\* ------------------------------------------------ send_welcome (/start)
InAddUser(c) == caller[c].pc \in {"add_user", "save_open", "save_dump"}

\* lines 185-188: a worker thread takes a /start message while the main
\* thread is in bot.infinity_polling()
welcome_receive(h, user_id, username) ==
    /\ caller[h].pc = "idle"
    /\ caller[Main].pc = "polling"
    /\ handled < MaxStarts
    /\ handled' = handled + 1
    /\ SetCaller(h, [caller[h] EXCEPT !.pc = "add_user", !.user_id = user_id,
                                      !.username = username])
    /\ UNCHANGED <<now, file, schedule, running, sent_times, sent_dates, loop,
                   spawned, fired, registered, durable>>

\* lines 44-50: users = Database.load_users(); users[str(user_id)] = {...}
add_user_load(h) ==
    /\ caller[h].pc = "add_user"
    /\ SetCaller(h, [caller[h] EXCEPT !.pc = "save_open",
           !.users = add_user_dict(load_users(file), caller[h].user_id,
                                   caller[h].username, now)])
    /\ registered' = Upsert(registered, caller[h].user_id,
                            [username |-> caller[h].username,
                             registered_at |-> Isoformat(now), active |-> TRUE])
    /\ UNCHANGED <<now, file, schedule, running, sent_times, sent_dates, loop,
                   spawned, handled, fired, durable>>

\* line 38: open(USERS_DB_FILE, 'w') creates or empties the file
save_users_open(h) ==
    /\ caller[h].pc = "save_open"
    /\ file' = Truncated
    /\ SetCaller(h, [caller[h] EXCEPT !.pc = "save_dump"])
    /\ UNCHANGED <<now, schedule, running, sent_times, sent_dates, loop,
                   spawned, handled, fired, registered, durable>>

\* line 39: json.dump(users, f) and the close of the file
save_users_dump(h) ==
    /\ caller[h].pc = "save_dump"
    /\ file' = JsonDump(caller[h].users)
    /\ durable' = caller[h].users
    /\ SetCaller(h, [caller[h] EXCEPT !.pc = "if_running", !.users = <<>>])
    /\ UNCHANGED <<now, schedule, running, sent_times, sent_dates, loop,
                   spawned, handled, fired, registered>>

\* line 194: if not broadcast_manager.running: broadcast_manager.start()
welcome_if_running(h) ==
    /\ caller[h].pc = "if_running"
    /\ SetCaller(h, [caller[h] EXCEPT !.pc = IF ~running THEN "start_if"
                                              ELSE "welcome"])
    /\ UNCHANGED <<now, file, schedule, running, sent_times, sent_dates, loop,
                   spawned, handled, fired, registered, durable>>

\* line 209: bot.send_message(user_id, welcome_text), returning or raising
welcome_send(h) ==
    /\ caller[h].pc = "welcome"
    /\ SetCaller(h, IdleCaller)
    /\ UNCHANGED <<now, file, schedule, running, sent_times, sent_dates, loop,
                   spawned, handled, fired, registered, durable>>

\* line 38 raising: open(USERS_DB_FILE, 'w') fails with OSError (the file or
\* its directory cannot be written) and leaves the file as it was.  No try
\* encloses line 38, the call at line 51 or the call at line 191, so the
\* exception ends send_welcome; the worker thread is free again.
save_users_open_raises(h) ==
    /\ caller[h].pc = "save_open"
    /\ SetCaller(h, IdleCaller)
    /\ UNCHANGED <<now, file, schedule, running, sent_times, sent_dates, loop,
                   spawned, handled, fired, registered, durable>>

\* line 39 raising: the write or the close fails with OSError (the disk is
\* full) after line 38 has emptied the file; the exception ends send_welcome.
save_users_dump_raises(h) ==
    /\ caller[h].pc = "save_dump"
    /\ file' = Truncated
    /\ SetCaller(h, IdleCaller)
    /\ UNCHANGED <<now, schedule, running, sent_times, sent_dates, loop,
                   spawned, handled, fired, registered, durable>>

\* --------------------------------------------------- crash and restart
\* The process is killed at any point after __main__ has begun, and is
\* started again: the objects are constructed anew (lines 64-68, 141) and
\* __main__ is about to call start() (line 349).  The file is what the
\* killed process left.
crash ==
    /\ caller[Main].pc # "start_if"
    /\ running' = FALSE
    /\ sent_times' = {}
    /\ sent_dates' = {}
    /\ loop' = [l \in LoopIds |-> NoLoop]
    /\ caller' = [c \in Callers |-> IF c = Main THEN [IdleCaller EXCEPT !.pc = "start_if"]
                                    ELSE IdleCaller]
    /\ spawned' = 0
    /\ handled' = 0
    /\ UNCHANGED <<now, file, schedule, fired, registered, durable>>

\* -------------------------------------------------------- specifications
\* A store left by an earlier run of the program; an administrator may have
\* set "active" to false in it.
Seed(ids, active) ==
    JsonDump([i \in 1..Len(ids) |->
                 <<str(ids[i]), UserRecord(ids[i], "seed", 0, active)>>])

LoopStep(l) ==
    \/ check_loop_while(l)
    \/ check_time(l)
    \/ check_datetime(l)
    \/ check_for(l)
    \/ send_get_ids(l)
    \/ \E ok \in BOOLEAN : send_one(l, ok)
    \/ check_add(l)
    \/ check_reset(l)
    \/ check_loop_sleep(l)
    \/ check_loop_except(l)

StartStep(c) == start_if(c) \/ start_set(c) \/ start_thread(c)

HandlerStep(h, ids, names) ==
    \/ \E u \in ids, n \in names : welcome_receive(h, u, n)
    \/ add_user_load(h)
    \/ save_users_open(h)
    \/ save_users_dump(h)
    \/ welcome_if_running(h)
    \/ welcome_send(h)

\* The scheduler alone: the main thread starts it and one loop runs, over
\* every schedule and over an empty and a three-user registry.
InitTick == InitWith({t \in Instants : DayOf(t) = 0},
                     {NoFile, Seed(<<1, 2, 3>>, TRUE)}, Schedules)
NextTick ==
    \/ ClockAdvance
    \/ StartStep(Main)
    \/ \E l \in LoopIds : LoopStep(l)
SpecTick == InitTick /\ [][NextTick]_vars

\* The registry under the handler threads, with the scheduler reading it.
InitReg == InitWith({1, 540}, {NoFile, Seed(<<2>>, FALSE)}, {ScheduleC})
NextReg ==
    \/ StartStep(Main)
    \/ \E h \in Handlers : HandlerStep(h, UserIds, Names)
    \/ \E l \in LoopIds : LoopStep(l)
SpecReg == InitReg /\ [][NextReg]_vars

\* The same with one handler thread: register calls run one after another.
NextSeq ==
    \/ StartStep(Main)
    \/ HandlerStep(1, UserIds, Names)
    \/ \E l \in LoopIds : LoopStep(l)
SpecSeq == InitReg /\ [][NextSeq]_vars

\* The whole program at one minute of the clock.
Init == InitWith({1, 540}, {NoFile}, {ScheduleC})
Next ==
    \/ stop
    \/ \E c \in Callers : StartStep(c)
    \/ \E h \in Handlers : HandlerStep(h, {1}, {"ann"})
    \/ \E l \in LoopIds : LoopStep(l)
Spec == Init /\ [][Next]_vars


\* The registry under storage faults: one handler thread whose writes may
\* fail, the scheduler reading the store, and the process killed and
\* started again.  The store at startup may be one a killed process left
\* half-written, or one the process may not read.
InitFault == InitWith({1, 540}, {NoFile, Seed(<<2>>, FALSE), Truncated, Unreadable},
                      {ScheduleC})
NextFault ==
    \/ crash
    \/ StartStep(Main)
    \/ HandlerStep(1, UserIds, Names)
    \/ save_users_open_raises(1)
    \/ save_users_dump_raises(1)
    \/ \E l \in LoopIds : LoopStep(l)
SpecFault == InitFault /\ [][NextFault]_vars

\* The program started over a store that cannot be parsed or opened: the
\* scheduler and a handler thread read it, and the handler rewrites it.
InitCorrupt == InitWith({1, 540}, {Truncated, Unreadable}, {ScheduleC})
NextCorrupt ==
    \/ StartStep(Main)
    \/ HandlerStep(1, {1}, {"ann"})
    \/ \E l \in LoopIds : LoopStep(l)
SpecCorrupt == InitCorrupt /\ [][NextCorrupt]_vars

\* A tick in which two entries are due (ScheduleA at 09:00 of the first
\* day), with a handler thread registering a user meanwhile.
InitSnap == InitWith({540}, {NoFile, Seed(<<2>>, TRUE)}, {ScheduleA, ScheduleC})
NextSnap ==
    \/ StartStep(Main)
    \/ HandlerStep(1, {1}, {"ann"})
    \/ \E l \in LoopIds : LoopStep(l)
SpecSnap == InitSnap /\ [][NextSnap]_vars

\* The scheduler's life under the main thread: start(), the loop, stop().
InitLife == InitWith({1, 540}, {NoFile, Seed(<<1, 2>>, TRUE)}, {ScheduleC})
NextLife ==
    \/ ClockAdvance
    \/ stop
    \/ StartStep(Main)
    \/ \E l \in LoopIds : LoopStep(l)
SpecLife == InitLife /\ [][NextLife]_vars
\* With fair scheduling of the loop threads: a started thread is scheduled
\* again, and time.sleep and bot.send_message return.
FairLife == SpecLife /\ \A l \in LoopIds : WF_vars(LoopStep(l))

\* ------------------------------------------------------------------ claims
DailyEntries == {i \in 1..Len(schedule) : IsDailyKey(schedule[i][1])}
AbsoluteEntries == {i \in 1..Len(schedule) : IsAbsoluteKey(schedule[i][1])}
Range(seq) == {seq[i] : i \in 1..Len(seq)}

\* C1: a tick that evaluates a daily key k having read the clock at t calls
\* the broadcast of k if and only if the HH:MM of t equals k and k has not
\* been broadcast yet by a tick observing the day of t.
C1_DailyFiresIffDueAndUnsentToday ==
    [][\A l \in LoopIds :
        (/\ loop[l].pc = "for"
         /\ loop'[l] # loop[l]
         /\ loop[l].idx \in DailyEntries)
        => ((loop'[l].pc = "get_ids")
            <=> (/\ StrfHM(loop[l].t_time) = schedule[loop[l].idx][1]
                 /\ fired[loop[l].idx][DayOf(loop[l].t_time)] = 0))]_vars

\* C2: an absolute key is broadcast at most once, and only by a tick that
\* observed the date and minute the key names.
C2_AbsoluteAtMostOnce ==
    \A i \in AbsoluteEntries :
        /\ \A d \in 0..MaxDay :
              fired[i][d] > 0 =>
                  \E t \in Instants : DayOf(t) = d /\ StrfDateHM(t) = schedule[i][1]
        /\ \A d \in 0..MaxDay : fired[i][d] <= 1
        /\ \A d, e \in 0..MaxDay : (fired[i][d] > 0 /\ fired[i][e] > 0) => d = e

\* C3: when a fan-out over a recipient list has returned, every recipient
\* was sent to exactly once, sent_count is the number of sends that
\* returned, failed_count the number that raised, and they add up to the
\* number of recipients.
C3_FanOutAttemptsEveryRecipient ==
    \A l \in LoopIds :
        (loop[l].pc = "add" /\ loop[l].user_ids # <<>>) =>
            LET r == loop[l]
                n == Len(r.user_ids) IN
            /\ Len(r.outcomes) = n
            /\ \A u \in Range(r.user_ids) :
                  Cardinality({j \in 1..Len(r.outcomes) : r.outcomes[j][1] = u}) = 1
            /\ r.sent_count = Cardinality({j \in 1..Len(r.outcomes) : r.outcomes[j][2]})
            /\ r.failed_count = Cardinality({j \in 1..Len(r.outcomes) : ~r.outcomes[j][2]})
            /\ r.sent_count + r.failed_count = n

\* C3 witness: recipients [1, 2, 3], the send to 2 raised, 1 and 3 were sent.
C3_Witness ==
    \E l \in LoopIds :
        /\ loop[l].pc = "add"
        /\ loop[l].user_ids = <<1, 2, 3>>
        /\ loop[l].outcomes = << <<1, TRUE>>, <<2, FALSE>>, <<3, TRUE>> >>
        /\ loop[l].sent_count = 2
        /\ loop[l].failed_count = 1

\* C4: with register calls running one after another, whenever no call is
\* in progress the store holds exactly one record per registered id, with
\* the id, the name and the time of the latest call for it and active =
\* true, and the records of the other ids as they were.
C4_RegisterIsIdempotentUpsert ==
    (\A h \in Handlers : ~InAddUser(h)) =>
        LET users == load_users(file) IN
        /\ \A i, j \in 1..Len(users) : users[i][1] = users[j][1] => i = j
        /\ {users[i][1] : i \in 1..Len(users)} = {str(id) : id \in DOMAIN registered}
        /\ \A id \in DOMAIN registered :
              LET rec == Lookup(users, str(id)) IN
              /\ Lookup(rec, "user_id") = id
              /\ Lookup(rec, "username") = registered[id].username
              /\ Lookup(rec, "registered_at") = registered[id].registered_at
              /\ Lookup(rec, "active") = registered[id].active

\* C4 witness: id 2, in the store as inactive "seed", has registered twice,
\* last as "bob"; the store holds the one record, active, named "bob".
C4_Witness ==
    /\ handled = 2
    /\ \A h \in Handlers : caller[h].pc = "idle"
    /\ Len(load_users(file)) = 1
    /\ HasKey(load_users(file), "2")
    /\ Lookup(Lookup(load_users(file), "2"), "username") = "bob"
    /\ Lookup(Lookup(load_users(file), "2"), "active") = TRUE

\* C5: a daily key that is due in a tick and has not been broadcast on the
\* day the tick observes is eligible: no marker set on an earlier day is
\* left in sent_times once the clock has passed midnight.
C5_DailyKeyEligibleOnNewDay ==
    \A l \in LoopIds :
        (/\ loop[l].pc = "for"
         /\ loop[l].idx \in DailyEntries
         /\ schedule[loop[l].idx][1] = current_time(l)
         /\ fired[loop[l].idx][DayOf(loop[l].t_time)] = 0)
        => schedule[loop[l].idx][1] \notin sent_times

\* C6: once every register call has returned, the store holds a record for
\* every id that was registered or was in the store before.
C6_ConcurrentUpsertsKeepAllRecords ==
    (\A h \in Handlers : ~InAddUser(h)) =>
        \A id \in DOMAIN registered : HasKey(load_users(file), str(id))

\* C7: the list get_all_user_ids returns to a broadcast holds every
\* recipient that is active in the last completely saved store, also while
\* an add_user is rewriting the file.
C7_ListActiveIdsSafeDuringRegister ==
    [][\A l \in LoopIds :
        (loop[l].pc = "get_ids" /\ loop'[l].pc \in {"send", "add"})
        => Range(ActiveIds(durable, 1)) \subseteq Range(loop'[l].user_ids)]_vars

\* C8: after an exception was caught at the tick boundary the thread begins
\* another tick, unless the running flag is false.
C8_LoopSurvivesTickError ==
    \A l \in LoopIds :
        (loop[l].pc = "except") ~> (loop[l].pc = "time" \/ ~running)

\* C8 witness: a thread that caught an exception has begun another tick.
C8_Witness ==
    \E l \in LoopIds : loop[l].pc = "time" /\ loop[l].caught = 1 /\ running

\* C9: when a tick is ended by an exception raised for one entry, no other
\* entry that is due and unsent in that tick is left unbroadcast.
C9_DueEntriesIndependent ==
    \A l \in LoopIds :
        loop[l].pc = "except" =>
            \A i \in 1..Len(schedule) : i # loop[l].raised_at => ~IsDue(l, i)

C11_StopIsCooperative ==
    /\ [][caller[Main].pc = "stopped" =>
            \A l \in LoopIds : ~(loop[l].pc = "while" /\ loop'[l].pc = "time")]_vars
    /\ \A l \in LoopIds :
          (caller[Main].pc = "stopped" /\ loop[l].pc # "none")
              ~> (loop[l].pc = "done")
    /\ \A l \in LoopIds :
          \A ids \in {get_all_user_ids(Seed(<<1, 2>>, TRUE))} :
              (caller[Main].pc = "stopped" /\ loop[l].pc = "send"
                   /\ loop[l].user_ids = ids)
              ~> (/\ loop[l].pc = "add"
                  /\ [j \in 1..Len(loop[l].outcomes) |-> loop[l].outcomes[j][1]] = ids)

\* C11 witness: stop() has returned while a fan-out to [1, 2] had sent to 1
\* only; the fan-out is at its second recipient.
C11_Witness ==
    \E l \in LoopIds :
        /\ caller[Main].pc = "stopped"
        /\ ~running
        /\ loop[l].pc = "send"
        /\ loop[l].user_ids = <<1, 2>>
        /\ loop[l].j = 2

\* C12: a register call never ends the handler that made it: every step a
\* handler thread takes inside add_user (save_users included) leaves it
\* inside add_user or at line 194 of send_welcome, from where the welcome
\* message is sent.
C12_RegisterNeverFailsCaller ==
    [][\A h \in Handlers :
        (InAddUser(h) /\ caller'[h] # caller[h] /\ ~crash)
        => caller'[h].pc \in {"save_open", "save_dump", "if_running"}]_vars

\* C13: when the process has been started (again), the store holds every
\* record of the last completed save, as it was saved.
C13_DurableAcrossCrash ==
    caller[Main].pc = "start_if" =>
        \A i \in 1..Len(durable) :
            /\ HasKey(load_users(file), durable[i][1])
            /\ Lookup(load_users(file), durable[i][1]) = durable[i][2]

\* The store exists and load_users cannot read a registry from it.
CorruptOrUnreadable(f) == f.kind # "absent" /\ ~f.complete

\* C14: over a store that cannot be opened or parsed, load_users and
\* get_all_user_ids return the empty registry and the empty list; a tick
\* that reads it for a due entry passes line 121 without an exception, and
\* an add_user that reads it goes on to save the one new record.
C14_CorruptStoreIsEmptyRegistry ==
    [][CorruptOrUnreadable(file) =>
        /\ load_users(file) = <<>>
        /\ get_all_user_ids(file) = <<>>
        /\ \A l \in LoopIds :
              (loop[l].pc = "get_ids" /\ loop'[l] # loop[l] /\ ~crash)
              => (loop'[l].pc = "add" /\ loop'[l].user_ids = <<>>)
        /\ \A h \in Handlers :
              (caller[h].pc = "add_user" /\ caller'[h] # caller[h] /\ ~crash)
              => /\ caller'[h].pc = "save_open"
                 /\ caller'[h].users =
                       add_user_dict(<<>>, caller[h].user_id, caller[h].username, now)]_vars

\* C14 witness: a tick found an entry due, read the store while it could
\* not be parsed, and is at line 105 with no recipient.
C14_Witness ==
    \E l \in LoopIds :
        /\ CorruptOrUnreadable(file)
        /\ loop[l].pc = "add"
        /\ loop[l].user_ids = <<>>
        /\ fired[1][0] = 1

\* No record of the store has "active" true (or lacks the field).
NoActiveRecipient(f) ==
    \A i \in 1..Len(load_users(f)) : ~DictGet(load_users(f)[i][2], "active", TRUE)

\* C15: the broadcast of a due entry over a store with no active recipient
\* returns at line 123: it raises nothing, calls bot.send_message for
\* nobody and has counted no send and no failure.
C15_EmptyRegistryBroadcast ==
    [][\A l \in LoopIds :
        (loop[l].pc = "get_ids" /\ NoActiveRecipient(file) /\ loop'[l] # loop[l])
        => /\ loop'[l].pc = "add"
           /\ loop'[l].user_ids = <<>>
           /\ loop'[l].outcomes = <<>>
           /\ loop'[l].sent_count = 0
           /\ loop'[l].failed_count = 0]_vars

\* C15 witness: the only record of the store is inactive, and the broadcast
\* of the due entry has returned without a send.
C15_Witness ==
    \E l \in LoopIds :
        /\ file = Seed(<<2>>, FALSE)
        /\ loop[l].pc = "add"
        /\ loop[l].outcomes = <<>>
        /\ loop[l].sent_count = 0
        /\ loop[l].failed_count = 0
        /\ fired[1][0] = 1

\* C16: no step of a _check_loop thread changes the registry the store
\* holds, a send that raises included; a step that changes it is a step of
\* a handler thread inside add_user.
C16_SchedulerNeverMutatesRegistry ==
    [][/\ (\E l \in LoopIds : LoopStep(l)) => load_users(file') = load_users(file)
       /\ load_users(file') # load_users(file)
              => \E h \in Handlers : InAddUser(h) /\ caller'[h] # caller[h]]_vars

\* C16 witness: a fan-out has ended in which the send to a recipient
\* raised; the recipient's record is in the store, active.
C16_Witness ==
    \E l \in LoopIds :
        /\ loop[l].pc = "add"
        /\ \E j \in 1..Len(loop[l].outcomes) :
              /\ ~loop[l].outcomes[j][2]
              /\ HasKey(load_users(file), str(loop[l].outcomes[j][1]))
              /\ Lookup(Lookup(load_users(file), str(loop[l].outcomes[j][1])),
                        "active") = TRUE

\* The positions of a tick after its two readings of the clock.
InTick == {"for", "get_ids", "send", "add", "reset"}

\* C17: a tick works with one current time: the HH:MM it compares daily
\* keys with is the HH:MM of the date and minute it compares absolute keys
\* with, and the midnight reset clears sent_times exactly when that HH:MM
\* is "00:00".
C17_OneCurrentTimePerTick ==
    [][\A l \in LoopIds :
        /\ loop[l].pc \in InTick =>
               current_datetime(l) = StrfDate(loop[l].t_datetime) \o <<" ">> \o current_time(l)
        /\ (loop[l].pc = "reset" /\ loop'[l].pc = "sleep") =>
               sent_times' = IF current_time(l) = KeyMidnight THEN {} ELSE sent_times]_vars

\* C18: a tick reads the registry at most once, so that every broadcast of
\* the tick goes to the same list of recipients.
C18_RegistryReadOncePerTick ==
    \A l \in LoopIds :
        /\ Len(loop[l].reads) <= 1
        /\ \A a, b \in 1..Len(loop[l].reads) : loop[l].reads[a] = loop[l].reads[b]

\* The positions of a thread that is executing a tick (lines 96-115).
Ticking == {"time", "datetime"} \cup InTick

\* C19: at no time are two _check_loop threads executing a tick.
C19_AtMostOneLoopTicks ==
    Cardinality({l \in LoopIds : loop[l].pc \in Ticking}) <= 1

\* The marker set of a key holds it.
Marked(k, dates, times) == IF IsAbsoluteKey(k) THEN k \in dates ELSE k \in times

\* C20: a key enters its marker set only by the step of line 105 or 111
\* that follows the return of its broadcast, that step adds it whatever
\* the sends did, and no entry is broadcast a second time by a tick that
\* reads the same day and minute.
C20_MarkedAfterFanOutNeverRebroadcast ==
    [][/\ \A i \in 1..Len(schedule) :
            (/\ ~Marked(schedule[i][1], sent_dates, sent_times)
             /\ Marked(schedule[i][1], sent_dates', sent_times'))
            => \E l \in LoopIds : loop[l].pc = "add" /\ loop[l].idx = i /\ check_add(l)
       /\ \A l \in LoopIds :
            (loop[l].pc = "add" /\ loop'[l] # loop[l])
            => Marked(schedule[loop[l].idx][1], sent_dates', sent_times')
       /\ \A i \in 1..Len(schedule) : \A d \in 0..MaxDay : fired'[i][d] <= 1]_vars

====
